---------------------------- MODULE Spec2Model ----------------------------
(***************************************************************************)
(* A model of dashboard/dashboard.py: a Streamlit script that is rerun     *)
(* from top to bottom on every widget interaction.  One rerun loads the    *)
(* cached dataset, filters it by date range and state, and renders one of  *)
(* four pages; the RFM Segmentation page aggregates the filtered orders    *)
(* per customer, scores each axis with pandas.qcut(q=5) and labels each    *)
(* customer with rfm_segment.                                              *)
(*                                                                         *)
(* Modelling conventions.                                                  *)
(*  - A DataFrame is a record [columns, rows]; rows is a sequence of       *)
(*    records.  Only the columns the RFM page and the filter read are      *)
(*    carried as data; the other columns appear by name only.              *)
(*  - pandas' missing value (NaN, NaT, None) is the value NaN.             *)
(*  - A timestamp is a count of ticks, TicksPerDay ticks to a day, so that *)
(*    Timedelta.days (a floor) and .dt.date are real conversions.          *)
(*  - Payments are whole currency units and quantile edges are kept        *)
(*    exactly, scaled by Q; the IEEE rounding of numpy's interpolation is  *)
(*    not modelled.                                                        *)
(*  - Chart rendering (matplotlib, st.pyplot, st.metric) is not modelled:  *)
(*    err records an exception of the data pipeline only.                  *)
(***************************************************************************)
EXTENDS Integers, Sequences, FiniteSets, TLC

VARIABLES
    csv,             \* rows of main_data.csv (never written by the script)
    cache,           \* st.cache_data store of load_data: <<>> or <<frame>>
    main_df,         \* main_df as it is when the rerun ends
    filtered_df,     \* filtered_df as it is when the rerun ends
    page,            \* st.sidebar.radio selection
    date_range,      \* st.sidebar.date_input value: a tuple of 1 or 2 dates
    selected_state,  \* st.sidebar.selectbox selection
    rfm_df,          \* rfm_df as far as the RFM page built it
    err,             \* [type, line] of the exception the top-level except caught
    row,             \* argument of rfm_segment (segmentation runs)
    segment,         \* value rfm_segment returned
    col,             \* a column handed to the scoring lines (scoring runs)
    axis,            \* which scoring line was applied to col
    scores           \* the score column it produced

vars == <<csv, cache, main_df, filtered_df, page, date_range, selected_state,
          rfm_df, err, row, segment, col, axis, scores>>

dashVars == <<csv, cache, main_df, filtered_df, page, date_range,
              selected_state, rfm_df, err>>
scoreVars == <<col, axis, scores>>

---------------------------------------------------------------------------
(* Bounds of the model *)

MaxRows == 2
NumCust == 2
NumOrd == 2
MaxDay == 1
MaxPay == 2
MaxItems == 3
MaxCust == 6
MaxVal == 3
MaxTotal == 4

(* Program constants *)

\* pd.Timedelta(days=1) in timestamp ticks: the clock of the model ticks
\* twice a day
TicksPerDay == 2

\* q=5 of the three pd.qcut calls
Q == 5

NaN == 0 - 1

States == {"RJ", "SP"}

Pages == {"Overview", "Delivery Performance", "RFM Segmentation",
          "Geospatial Analysis"}

MaxTs == (MaxDay + 1) * TicksPerDay - 1

---------------------------------------------------------------------------
(* Generic helpers *)

Range(s) == {s[i] : i \in 1..Len(s)}

RECURSIVE SumSeq(_)
SumSeq(s) == IF s = <<>> THEN 0 ELSE Head(s) + SumSeq(Tail(s))

SetMax(S) == CHOOSE x \in S : \A y \in S : y <= x

SetMin(S) == CHOOSE x \in S : \A y \in S : x <= y

RECURSIVE SortedSeq(_)
SortedSeq(S) == IF S = {} THEN <<>> ELSE <<SetMin(S)>> \o SortedSeq(S \ {SetMin(S)})

\* the non-missing entries of a column, in order
DropNa(s) == SelectSeq(s, LAMBDA v : v # NaN)

Column(rows, name) == [i \in 1..Len(rows) |-> rows[i][name]]

\* the tables of 1..n rows over a set of rows
TablesOf(RowSet, n) == UNION {[1..k -> RowSet] : k \in 1..n}

---------------------------------------------------------------------------
(* load_data and the filter stage *)

BaseColumns == {"customer_unique_id", "order_id", "order_purchase_timestamp",
                "total_payment", "customer_state", "delivery_delay_days"}

EmptyFrame == [columns |-> {}, rows |-> <<>>]

\* pd.read_csv + pd.to_datetime: the frame the loader returns
ReadCsv(file) == [columns |-> BaseColumns, rows |-> file]

\* @st.cache_data: the first call runs the body, later calls return a copy
\* of the stored value
load_data(store, file) == IF store = <<>> THEN ReadCsv(file) ELSE store[1]

\* .dt.date
Date(ts) == ts \div TicksPerDay

\* line 68
min_date(df) == Date(SetMin(Range(DropNa(Column(df.rows, "order_purchase_timestamp")))))

\* line 69
max_date(df) == Date(SetMax(Range(DropNa(Column(df.rows, "order_purchase_timestamp")))))

\* the values st.date_input can return for a range input bounded by min_date
\* and max_date: one date while the range is being picked, else (start, end)
DateRanges(df) ==
    IF DropNa(Column(df.rows, "order_purchase_timestamp")) = <<>> THEN {}
    ELSE LET D == min_date(df)..max_date(df)
         IN  {<<a>> : a \in D} \cup {dr \in D \X D : dr[1] <= dr[2]}

\* ['All'] + sorted(main_df['customer_state'].unique().tolist())
states(df) == {"All"} \cup Range(Column(df.rows, "customer_state"))

InDateRange(r, dr) ==
    /\ r.order_purchase_timestamp # NaN
    /\ Date(r.order_purchase_timestamp) >= dr[1]
    /\ Date(r.order_purchase_timestamp) <= dr[2]

\* lines 79-92; TRUE when filtered_df is the main_df object itself
IsAlias(dr, st) == Len(dr) # 2 /\ st = "All"

FilterRows(df, dr, st) ==
    LET byDate == IF Len(dr) = 2
                  THEN SelectSeq(df.rows, LAMBDA r : InDateRange(r, dr))
                  ELSE df.rows
    IN  IF st # "All"
        THEN SelectSeq(byDate, LAMBDA r : r.customer_state = st)
        ELSE byDate

FilterStage(df, dr, st) == [columns |-> df.columns, rows |-> FilterRows(df, dr, st)]

---------------------------------------------------------------------------
(* RFM page, lines 264-272: reference date and per-customer aggregation *)

Timestamps(rows) == Range(DropNa(Column(rows, "order_purchase_timestamp")))

\* filtered_df['order_purchase_timestamp'].max() + pd.Timedelta(days=1);
\* max() skips NaT and is NaT when nothing is left
reference_date(rows) ==
    IF Timestamps(rows) = {} THEN NaN ELSE SetMax(Timestamps(rows)) + TicksPerDay

\* a grouping that keeps one key per input row (no de-duplication of customers)
GroupKeysPerRow(rows) == Column(rows, "customer_unique_id")

\* groupby('customer_unique_id'): rows with a missing key belong to no group
\* (dropna=True) and the groups come sorted by key (sort=True)
GroupKeys(rows) == SortedSeq(Range(Column(rows, "customer_unique_id")) \ {NaN})

Group(rows, c) == SelectSeq(rows, LAMBDA r : r.customer_unique_id = c)

\* lambda x: (reference_date - x.max()).days
Recency(ref, g) ==
    IF ref = NaN \/ Timestamps(g) = {} THEN NaN
    ELSE (ref - SetMax(Timestamps(g))) \div TicksPerDay

\* 'count' in place of 'nunique': every row of a multi-item order is counted
NuniqueAsCount(g) == Len(g)

\* 'nunique': distinct values, missing ones not counted
Nunique(g) == Cardinality(Range(Column(g, "order_id")) \ {NaN})

\* 'sum': missing values skipped
Monetary(g) == SumSeq(DropNa(Column(g, "total_payment")))

AggColumns == {"customer_id", "recency", "frequency", "monetary"}

AggRecord(rows, c) ==
    [customer_id |-> c,
     recency     |-> Recency(reference_date(rows), Group(rows, c)),
     frequency   |-> Nunique(Group(rows, c)),
     monetary    |-> Monetary(Group(rows, c)),
     r_score |-> NaN, f_score |-> NaN, m_score |-> NaN,
     rfm_score |-> <<NaN, 3>>, segment |-> ""]

Aggregate(rows) ==
    LET keys == GroupKeys(rows)
    IN  [i \in 1..Len(keys) |-> AggRecord(rows, keys[i])]

---------------------------------------------------------------------------
(* pd.qcut(x, q=5, labels=...) and Series.rank(method='first') *)

\* the j-th smallest (0-based) of the values of xs
OrderStat(xs, j) ==
    CHOOSE v \in Range(xs) :
        /\ Cardinality({i \in 1..Len(xs) : xs[i] < v}) <= j
        /\ j < Cardinality({i \in 1..Len(xs) : xs[i] <= v})

\* Q times the k-th bin edge: x.quantile(k/Q) with linear interpolation
\* between the two order statistics around position (n-1)*k/Q
Edge(xs, k) ==
    LET p  == (Len(xs) - 1) * k
        j  == p \div Q
        t  == p % Q
        lo == OrderStat(xs, j)
    IN  IF t = 0 THEN Q * lo ELSE Q * lo + t * (OrderStat(xs, j + 1) - lo)

\* _bins_to_cuts, duplicates='raise': "Bin edges must be unique"; with no
\* value left every edge is NaN
QcutRaises(x) ==
    LET xs == DropNa(x)
    IN  \/ xs = <<>>
        \/ \E k \in 0..(Q - 1) : Edge(xs, k) = Edge(xs, k + 1)

\* bins.searchsorted(x, side='left'), include_lowest=True
Bucket(xs, v) ==
    IF Q * v = Edge(xs, 0) THEN 1
    ELSE Cardinality({k \in 0..Q : Edge(xs, k) < Q * v})

qcut(x, labels) ==
    [i \in 1..Len(x) |->
        IF x[i] = NaN THEN NaN ELSE labels[Bucket(DropNa(x), x[i])]]

\* rank(method='min'): tied values share the lowest rank of their group
RankMin(x) ==
    [i \in 1..Len(x) |-> 1 + Cardinality({j \in 1..Len(x) : x[j] < x[i]})]

\* rank(method='first'): ties ranked in the order they appear
RankFirst(x) ==
    [i \in 1..Len(x) |->
        1 + Cardinality({j \in 1..Len(x) : x[j] < x[i]})
          + Cardinality({j \in 1..(i - 1) : x[j] = x[i]})]

RLabels == <<5, 4, 3, 2, 1>>

FMLabels == <<1, 2, 3, 4, 5>>

\* line 275
r_score(recency) == qcut(recency, RLabels)

\* line 276
f_score(frequency) == qcut(RankFirst(frequency), FMLabels)

\* pd.cut in place of pd.qcut: five bins of equal width between the smallest
\* and the largest value, the smallest value in the first bin
m_score_equal_width(monetary) ==
    LET xs == DropNa(monetary)
        lo == SetMin(Range(xs))
        hi == SetMax(Range(xs))
    IN  [i \in 1..Len(monetary) |->
            IF monetary[i] = NaN THEN NaN
            ELSE IF monetary[i] = lo THEN FMLabels[1]
            ELSE FMLabels[Cardinality({k \in 0..(Q - 1) :
                              Q * lo + k * (hi - lo) < Q * monetary[i]})]]

\* line 277
m_score(monetary) == qcut(monetary, FMLabels)

---------------------------------------------------------------------------
(* rfm_segment, lines 286-304 *)

\* the Loyal Customers test placed before the Champions test
rfm_segment_reordered(r, f, m) ==
    IF r >= 3 /\ f >= 4 THEN "Loyal Customers"
    ELSE IF r >= 4 /\ f >= 4 /\ m >= 4 THEN "Champions"
    ELSE IF r >= 4 /\ f >= 2 /\ f <= 3 THEN "Potential Loyalist"
    ELSE IF r >= 4 /\ f = 1 THEN "Recent Customers"
    ELSE IF r <= 2 /\ f >= 3 THEN "At Risk"
    ELSE IF r <= 2 /\ m >= 4 THEN "Can't Lose Them"
    ELSE IF r <= 2 /\ f <= 2 THEN "Hibernating"
    ELSE "Need Attention"

rfm_segment(r, f, m) ==
    IF r >= 4 /\ f >= 4 /\ m >= 4 THEN "Champions"
    ELSE IF r >= 3 /\ f >= 4 THEN "Loyal Customers"
    ELSE IF r >= 4 /\ f >= 2 /\ f <= 3 THEN "Potential Loyalist"
    ELSE IF r >= 4 /\ f = 1 THEN "Recent Customers"
    ELSE IF r <= 2 /\ f >= 3 THEN "At Risk"
    ELSE IF r <= 2 /\ m >= 4 THEN "Can't Lose Them"
    ELSE IF r <= 2 /\ f <= 2 THEN "Hibernating"
    ELSE "Need Attention"

---------------------------------------------------------------------------
(* RFM page, lines 264-306, as one computation on filtered_df *)

NoError == [type |-> "none", line |-> 0]

ValueError(n) == [type |-> "ValueError", line |-> n]

SetColumn(rows, name, values) ==
    [i \in 1..Len(rows) |-> [rows[i] EXCEPT ![name] = values[i]]]

\* lines 279-283 and 306 on fully scored rows
Finish(rows) ==
    [i \in 1..Len(rows) |->
        [rows[i] EXCEPT
            !.rfm_score = <<rows[i].r_score + rows[i].f_score + rows[i].m_score, 3>>,
            !.segment = rfm_segment(rows[i].r_score, rows[i].f_score, rows[i].m_score)]]

HasNaN(rows, name) == \E i \in 1..Len(rows) : rows[i][name] = NaN

RfmPage(T) ==
    LET agg == Aggregate(T.rows)
        s1  == SetColumn(agg, "r_score", r_score(Column(agg, "recency")))
        s2  == SetColumn(s1, "f_score", f_score(Column(agg, "frequency")))
        s3  == SetColumn(s2, "m_score", m_score(Column(agg, "monetary")))
    IN  IF QcutRaises(Column(agg, "recency"))
        THEN [rfm_df |-> [columns |-> AggColumns, rows |-> agg],
              err |-> ValueError(275)]
        ELSE IF QcutRaises(RankFirst(Column(agg, "frequency")))
        THEN [rfm_df |-> [columns |-> AggColumns \cup {"r_score"}, rows |-> s1],
              err |-> ValueError(276)]
        ELSE IF QcutRaises(Column(agg, "monetary"))
        THEN [rfm_df |-> [columns |-> AggColumns \cup {"r_score", "f_score"},
                          rows |-> s2],
              err |-> ValueError(277)]
        ELSE IF HasNaN(s3, "r_score")
        \* .astype(int) of a categorical holding NaN
        THEN [rfm_df |-> [columns |-> AggColumns \cup {"r_score", "f_score", "m_score"},
                          rows |-> s3],
              err |-> ValueError(280)]
        ELSE [rfm_df |-> [columns |-> AggColumns \cup
                                {"r_score", "f_score", "m_score", "rfm_score", "segment"},
                          rows |-> Finish(s3)],
              err |-> NoError]

---------------------------------------------------------------------------
(* One rerun of the script, lines 50-490 *)

\* a store that hands out the stored object itself, which the filter then
\* narrows in place: the store ends up holding the filtered frame
cache_shared(store, returned, filtered) == <<filtered>>

\* what the st.cache_data store holds after a rerun: the value load_data
\* returned on the first call; callers get copies, so nothing a rerun does
\* to its frames reaches the store
cache_data(store, returned, filtered) == IF store = <<>> THEN <<returned>> ELSE store

\* line 224: filtered_df['delay_category'] = ... adds a column to the object
\* filtered_df names
AddDelayCategory(df) == [df EXCEPT !.columns = @ \cup {"delay_category"}]

Script(store, file, pg, dr, st) ==
    LET loaded == load_data(store, file)
        flt    == FilterStage(loaded, dr, st)
        out    == IF pg = "Delivery Performance" THEN AddDelayCategory(flt) ELSE flt
        rfm    == IF pg = "RFM Segmentation" THEN RfmPage(flt)
                  ELSE [rfm_df |-> EmptyFrame, err |-> NoError]
    IN  [cache       |-> cache_data(store, loaded, flt),
         main_df     |-> IF IsAlias(dr, st) THEN out ELSE loaded,
         filtered_df |-> out,
         rfm_df      |-> rfm.rfm_df,
         err         |-> rfm.err]

Rerun(pg, dr, st) ==
    \E run \in {Script(cache, csv, pg, dr, st)} :
        /\ cache' = run.cache
        /\ main_df' = run.main_df
        /\ filtered_df' = run.filtered_df
        /\ rfm_df' = run.rfm_df
        /\ err' = run.err
        /\ page' = pg
        /\ date_range' = dr
        /\ selected_state' = st
        /\ UNCHANGED <<csv, row, segment, col, axis, scores>>

\* first run of a session: widgets at their defaults (lines 59-76, 89)
FirstRun ==
    /\ page = ""
    /\ csv # <<>>
    /\ Rerun("Overview",
             <<min_date(load_data(cache, csv)), max_date(load_data(cache, csv))>>,
             "All")

\* the user picks another page
SelectPage ==
    /\ page # ""
    /\ \E pg \in Pages \ {page} : Rerun(pg, date_range, selected_state)

\* the user picks a date, or the second date of a range
SelectDateRange ==
    /\ page # ""
    /\ \E dr \in DateRanges(load_data(cache, csv)) \ {date_range} :
           Rerun(page, dr, selected_state)

\* the user picks a state
SelectState ==
    /\ page # ""
    /\ \E st \in states(load_data(cache, csv)) \ {selected_state} :
           Rerun(page, date_range, st)

Next == FirstRun \/ SelectPage \/ SelectDateRange \/ SelectState

\* the rows main_data.csv may hold
OrderRows ==
    [customer_unique_id : 1..NumCust, order_id : 1..NumOrd,
     order_purchase_timestamp : 0..MaxTs, total_payment : 1..MaxPay,
     customer_state : States]

DashInit(files) ==
    /\ csv \in files
    /\ cache = <<>>
    /\ main_df = EmptyFrame
    /\ filtered_df = EmptyFrame
    /\ page = ""
    /\ date_range = <<>>
    /\ selected_state = ""
    /\ rfm_df = EmptyFrame
    /\ err = NoError
    /\ row = <<>>
    /\ segment = ""
    /\ col = <<>>
    /\ axis = ""
    /\ scores = <<>>

Init == DashInit(TablesOf(OrderRows, MaxRows))

Spec == Init /\ [][Next]_vars

---------------------------------------------------------------------------
(* The RFM page run on a filtered table given directly (lines 264-306) *)

EngineRows ==
    [customer_unique_id : 1..MaxItems, order_id : 1..NumOrd,
     order_purchase_timestamp : 0..MaxTs, total_payment : 1..MaxPay,
     customer_state : {"SP"}]

RequiredFields == {"customer_unique_id", "order_id", "order_purchase_timestamp",
                   "total_payment"}

\* the same tables with one required field of the last row left blank in the
\* file (read_csv yields NaN, to_datetime yields NaT)
Malformed(tables) ==
    {[t EXCEPT ![Len(t)] = [t[Len(t)] EXCEPT ![f] = NaN]] :
        t \in tables, f \in RequiredFields}

InitRfm ==
    /\ filtered_df \in {ReadCsv(t) : t \in TablesOf(EngineRows, MaxItems)
                                          \cup Malformed(TablesOf(EngineRows, MaxItems))}
    /\ csv = <<>>
    /\ cache = <<>>
    /\ main_df = EmptyFrame
    /\ page = ""
    /\ date_range = <<>>
    /\ selected_state = ""
    /\ rfm_df = EmptyFrame
    /\ err = NoError
    /\ row = <<>>
    /\ segment = ""
    /\ col = <<>>
    /\ axis = ""
    /\ scores = <<>>

ComputeRfm ==
    /\ page = ""
    /\ page' = "RFM Segmentation"
    /\ \E out \in {RfmPage(filtered_df)} :
           /\ rfm_df' = out.rfm_df
           /\ err' = out.err
    /\ UNCHANGED <<csv, cache, main_df, filtered_df, date_range, selected_state,
                   row, segment, col, axis, scores>>

NextRfm == ComputeRfm

SpecRfm == InitRfm /\ [][NextRfm]_vars

---------------------------------------------------------------------------
(* rfm_segment applied to one row of scores (line 306) *)

Scores == 1..Q

InitSeg ==
    /\ row \in [r_score : Scores, f_score : Scores, m_score : Scores]
    /\ segment = ""
    /\ csv = <<>>
    /\ cache = <<>>
    /\ main_df = EmptyFrame
    /\ filtered_df = EmptyFrame
    /\ page = ""
    /\ date_range = <<>>
    /\ selected_state = ""
    /\ rfm_df = EmptyFrame
    /\ err = NoError
    /\ col = <<>>
    /\ axis = ""
    /\ scores = <<>>

ApplySegment ==
    /\ segment = ""
    /\ segment' = rfm_segment(row.r_score, row.f_score, row.m_score)
    /\ UNCHANGED <<dashVars, row, scoreVars>>

NextSeg == ApplySegment

SpecSeg == InitSeg /\ [][NextSeg]_vars

---------------------------------------------------------------------------
(* The scoring lines 275-277 applied to one column of the aggregated table *)

\* monetary totals of five customers: small totals next to each other and
\* totals far apart
MonetaryTotals == (1..MaxTotal) \cup {10, 20, 30, 40, 1000}

\* the columns of n customers whose values are pairwise distinct
DistinctColumns(V, n) ==
    {c \in [1..n -> V] : \A i, j \in 1..n : i # j => c[i] # c[j]}

InitScore ==
    /\ col \in TablesOf(1..MaxVal, MaxCust) \cup DistinctColumns(MonetaryTotals, 5)
    /\ axis = ""
    /\ scores = <<>>
    /\ csv = <<>>
    /\ cache = <<>>
    /\ main_df = EmptyFrame
    /\ filtered_df = EmptyFrame
    /\ page = ""
    /\ date_range = <<>>
    /\ selected_state = ""
    /\ rfm_df = EmptyFrame
    /\ err = NoError
    /\ row = <<>>
    /\ segment = ""

Scored(ax, raises, line, result) ==
    /\ axis = ""
    /\ axis' = ax
    /\ err' = IF raises THEN ValueError(line) ELSE NoError
    /\ scores' = IF raises THEN <<>> ELSE result
    /\ UNCHANGED <<csv, cache, main_df, filtered_df, page, date_range,
                   selected_state, rfm_df, row, segment, col>>

\* line 275; the customer holding the latest purchase has recency 1
ScoreRecency ==
    /\ \E i \in 1..Len(col) : col[i] = 1
    /\ Scored("recency", QcutRaises(col), 275, r_score(col))

\* line 276, reached only when line 275 did not raise, which takes at least
\* two customers
ScoreFrequency ==
    /\ Len(col) >= 2
    /\ Scored("frequency", QcutRaises(RankFirst(col)), 276, f_score(col))

\* line 277, reached only when lines 275 and 276 did not raise
ScoreMonetary ==
    /\ Len(col) >= 2
    /\ Scored("monetary", QcutRaises(col), 277, m_score(col))

NextScore == ScoreRecency \/ ScoreFrequency \/ ScoreMonetary

SpecScore == InitScore /\ [][NextScore]_vars

---------------------------------------------------------------------------
(* Properties *)

WellFormed(rows) ==
    \A i \in 1..Len(rows) : \A f \in RequiredFields : rows[i][f] # NaN

CustomerIds(rows) == {rows[i].customer_unique_id : i \in 1..Len(rows)}

RowsOf(rows, c) == {i \in 1..Len(rows) : rows[i].customer_unique_id = c}

RECURSIVE PaymentOver(_, _)
PaymentOver(rows, I) ==
    IF I = {} THEN 0
    ELSE LET i == CHOOSE k \in I : TRUE
         IN  rows[i].total_payment + PaymentOver(rows, I \ {i})

LatestOf(rows, I) == SetMax({rows[i].order_purchase_timestamp : i \in I})

\* the RFM page ran on a non-empty table without missing fields
ValidRfmRun ==
    /\ page = "RFM Segmentation"
    /\ filtered_df.rows # <<>>
    /\ WellFormed(filtered_df.rows)

\* the eight rules of the segmentation table, in table order
RuleHolds(k, r, f, m) ==
    CASE k = 1 -> r >= 4 /\ f >= 4 /\ m >= 4
      [] k = 2 -> r >= 3 /\ f >= 4
      [] k = 3 -> r >= 4 /\ 2 <= f /\ f <= 3
      [] k = 4 -> r >= 4 /\ f = 1
      [] k = 5 -> r <= 2 /\ f >= 3
      [] k = 6 -> r <= 2 /\ m >= 4
      [] k = 7 -> r <= 2 /\ f <= 2
      [] OTHER -> TRUE

RuleLabels == <<"Champions", "Loyal Customers", "Potential Loyalist",
                "Recent Customers", "At Risk", "Can't Lose Them",
                "Hibernating", "Need Attention">>

FirstRule(r, f, m) == SetMin({k \in 1..8 : RuleHolds(k, r, f, m)})

\* C1: for every score triple in 1..5 the segment returned is one of the
\* eight labels and is the label of the lowest-numbered rule the triple
\* satisfies; (4, 4, 1) is a Loyal Customer, not a Champion.
C1_FirstMatch ==
    segment # "" =>
        /\ segment \in Range(RuleLabels)
        /\ segment = RuleLabels[FirstRule(row.r_score, row.f_score, row.m_score)]
        /\ (row.r_score = 4 /\ row.f_score = 4 /\ row.m_score = 1
                => segment = "Loyal Customers")

C1_Witness ==
    /\ row # <<>>
    /\ row.r_score = 4 /\ row.f_score = 4 /\ row.m_score = 1
    /\ segment = "Loyal Customers"

\* C2: on a valid input the aggregated RFM table has exactly one record per
\* distinct customer identifier of the input: as many rows as customers,
\* every customer present, none twice.
C2_OneRecordPerCustomer ==
    ValidRfmRun =>
        LET ids == Column(rfm_df.rows, "customer_id")
        IN  /\ Len(ids) = Cardinality(CustomerIds(filtered_df.rows))
            /\ Range(ids) = CustomerIds(filtered_df.rows)
            /\ \A i, j \in 1..Len(ids) : i # j => ids[i] # ids[j]

C2_Witness ==
    /\ ValidRfmRun
    /\ err = NoError
    /\ Len(rfm_df.rows) = 2
    /\ \E c \in CustomerIds(filtered_df.rows) :
           Cardinality(RowsOf(filtered_df.rows, c)) >= 2

\* C3: for every customer of the RFM table, frequency is the number of
\* distinct order identifiers among the customer's input rows (at least 1)
\* and monetary is the sum of the payment amount over all of those rows.
C3_FrequencyMonetary ==
    ValidRfmRun =>
        \A i \in 1..Len(rfm_df.rows) :
            LET rec == rfm_df.rows[i]
                I   == RowsOf(filtered_df.rows, rec.customer_id)
            IN  /\ rec.frequency = Cardinality({filtered_df.rows[k].order_id : k \in I})
                /\ rec.frequency >= 1
                /\ rec.monetary = PaymentOver(filtered_df.rows, I)

\* a produced table in which one customer has a two-item order
C3_Witness ==
    /\ ValidRfmRun
    /\ err = NoError
    /\ \E i \in 1..Len(rfm_df.rows) :
           LET rec == rfm_df.rows[i]
               I   == RowsOf(filtered_df.rows, rec.customer_id)
           IN  /\ Cardinality(I) = 2
               /\ rec.frequency = 1
               /\ rec.monetary = PaymentOver(filtered_df.rows, I)
               /\ rec.monetary >= 2

\* C4: an empty filtered table makes the RFM computation fail with an
\* EmptyInputError.
C4_EmptyInputError ==
    (page = "RFM Segmentation" /\ filtered_df.rows = <<>>)
        => err.type = "EmptyInputError"

FewDistinct(name) == Cardinality(Range(Column(rfm_df.rows, name))) < Q

\* C5: with fewer than 5 distinct values on a scoring axis the quintile
\* binning failure is handled and does not leave the RFM computation as an
\* error.
C5_DegenerateHandled ==
    (ValidRfmRun /\ (FewDistinct("recency") \/ FewDistinct("frequency")
                        \/ FewDistinct("monetary")))
        => ~(err.type = "ValueError" /\ err.line \in {275, 276, 277})

\* recency of every aggregated record is the whole number of days from the
\* reference instant (latest purchase of the input plus one day) back to the
\* customer's latest purchase; it is at least 1 and smallest for the customer
\* holding the latest purchase
C6_Recency ==
    ValidRfmRun =>
        LET rows == filtered_df.rows
            ref  == LatestOf(rows, 1..Len(rows)) + TicksPerDay
        IN  \A i \in 1..Len(rfm_df.rows) :
                LET rec  == rfm_df.rows[i]
                    last == LatestOf(rows, RowsOf(rows, rec.customer_id))
                IN  /\ rec.recency * TicksPerDay <= ref - last
                    /\ ref - last < (rec.recency + 1) * TicksPerDay
                    /\ rec.recency >= 1
                    /\ (last = LatestOf(rows, 1..Len(rows)) =>
                            \A j \in 1..Len(rfm_df.rows) :
                                rec.recency <= rfm_df.rows[j].recency)

\* one customer, two orders placed on two different days
SingleCustomerTwoOrders ==
    /\ ValidRfmRun
    /\ Len(filtered_df.rows) = 2
    /\ filtered_df.rows[1].customer_unique_id = filtered_df.rows[2].customer_unique_id
    /\ filtered_df.rows[1].order_id # filtered_df.rows[2].order_id
    /\ Date(filtered_df.rows[1].order_purchase_timestamp)
           # Date(filtered_df.rows[2].order_purchase_timestamp)

\* C6: recency is as C6_Recency says, and a single customer with two orders
\* on two days yields a record with recency 1, frequency 2 and monetary the
\* sum of both payments.
C6_RecencyAndScenario ==
    /\ C6_Recency
    /\ SingleCustomerTwoOrders =>
           /\ err = NoError
           /\ \E i \in 1..Len(rfm_df.rows) :
                  /\ rfm_df.rows[i].recency = 1
                  /\ rfm_df.rows[i].frequency = 2
                  /\ rfm_df.rows[i].monetary = filtered_df.rows[1].total_payment
                                                 + filtered_df.rows[2].total_payment

\* C7 as claimed: every customer has a distinct rank, ties ranked in row
\* order, and two customers with the same frequency get different f_score
\* values only if there are at least 5 customers.
C7_DistinctOnlyFromFive ==
    axis = "frequency" =>
        /\ \A i, j \in 1..Len(col) : i < j => RankFirst(col)[i] # RankFirst(col)[j]
        /\ \A i, j \in 1..Len(col) :
               (i < j /\ col[i] = col[j]) => RankFirst(col)[i] < RankFirst(col)[j]
        /\ \A i, j \in 1..Len(col) :
               (i # j /\ col[i] = col[j] /\ scores[i] # scores[j]) => Len(col) >= 5

\* C7 as amended: every customer has a distinct rank in 1..n, ordered by
\* frequency and, within a tie, by row order; the binning of the ranks never
\* fails; with at most 5 customers all f_score values are pairwise distinct,
\* tied customers included; a higher rank never gets a lower f_score.
C7_TieBreak ==
    axis = "frequency" =>
        LET rk == RankFirst(col)
            n  == Len(col)
        IN  /\ Range(rk) = 1..n
            /\ \A i, j \in 1..n : col[i] < col[j] => rk[i] < rk[j]
            /\ \A i, j \in 1..n : (i < j /\ col[i] = col[j]) => rk[i] < rk[j]
            /\ err = NoError
            /\ Len(scores) = n
            /\ n <= 5 => \A i, j \in 1..n : i # j => scores[i] # scores[j]
            /\ \A i, j \in 1..n : rk[i] < rk[j] => scores[i] <= scores[j]

\* two customers with the same frequency, scored 1 and 5
C7_Witness ==
    /\ axis = "frequency"
    /\ Len(col) = 2
    /\ col[1] = col[2]
    /\ scores = <<1, 5>>

\* C8: a row with a missing required field makes the RFM computation fail
\* with a MalformedRowError.
C8_MalformedRowError ==
    (page = "RFM Segmentation" /\ ~WellFormed(filtered_df.rows))
        => err.type = "MalformedRowError"

\* C9: after every rerun the loaded table has the rows and the columns the
\* loader returned.
C9_NoWriteBack ==
    page # "" => main_df = ReadCsv(csv)

\* C10: whatever reruns came before, the RFM page's result for the current
\* selection is the result of a first run on the table that selection
\* filters out of the file as loaded.
C10_Stateless ==
    page = "RFM Segmentation" =>
        LET T == FilterStage(ReadCsv(csv), date_range, selected_state)
        IN  /\ filtered_df = T
            /\ rfm_df = RfmPage(T).rfm_df
            /\ err = RfmPage(T).err

\* a complete RFM table computed four reruns into a session: the first rerun
\* shows Overview with a two-ended range and every state
C10_Witness ==
    /\ page = "RFM Segmentation"
    /\ Len(date_range) = 1
    /\ selected_state # "All"
    /\ err = NoError
    /\ rfm_df.rows # <<>>

\* C11: for exactly 5 customers with pairwise distinct monetary totals the
\* scoring of line 277 does not fail and the m_score of a customer is 1 plus
\* the number of customers with a smaller total, so the scores are 1, 2, 3,
\* 4, 5 in increasing order of monetary value whatever the gaps between the
\* totals; the totals 10, 20, 30, 40, 1000 are scored 1, 2, 3, 4, 5.
C11_FiveDistinctMonetary ==
    (/\ axis = "monetary"
     /\ Len(col) = 5
     /\ \A i, j \in 1..5 : i # j => col[i] # col[j])
        => /\ err = NoError
           /\ Len(scores) = 5
           /\ \A i \in 1..5 :
                  scores[i] = 1 + Cardinality({j \in 1..5 : col[j] < col[i]})
           /\ \A i, j \in 1..5 : col[i] < col[j] => scores[i] < scores[j]
           /\ col = <<10, 20, 30, 40, 1000>> => scores = <<1, 2, 3, 4, 5>>

\* the totals 10, 20, 30, 40, 1000 scored 1, 2, 3, 4, 5 by line 277
C11_Witness ==
    /\ axis = "monetary"
    /\ col = <<10, 20, 30, 40, 1000>>
    /\ scores = <<1, 2, 3, 4, 5>>

===========================================================================
